---------------------------- MODULE Spec2Model ----------------------------
(***************************************************************************)
(* A model of the fetch-filter-enrich pipeline of                          *)
(* src/indian_streaming_content.py: the retrying HTTP client               *)
(* (call_with_backoff), the paginator (fetch_new_arrivals), the rating     *)
(* lookup batch (fetch_title_details) and the flatten / filter /           *)
(* deduplicate / enrich / sort phases of main; and of organize_files of    *)
(* src/organize_files.py.                                                  *)
(*                                                                         *)
(* Python strings are TLA+ strings, handled character by character         *)
(* (strip, lower, title, float parsing, comparison).  Python dicts are     *)
(* functions whose DOMAIN is the set of keys present.  None and the empty  *)
(* string are both modelled by "" wherever the code only tests the         *)
(* truthiness of the value.                                                *)
(***************************************************************************)
EXTENDS Integers, Sequences, FiniteSets, TLC

(***************************************************************************)
(* Program constants (src/indian_streaming_content.py, lines 63-67).       *)
(***************************************************************************)
MAX_RETRIES == 5
BACKOFF_BASE == 2
BACKOFF_CAP == 60
MAX_PAGES_PER_REGION == 20

(***************************************************************************)
(* Strings.                                                                *)
(***************************************************************************)
Ch(s, i) == SubSeq(s, i, i)

UpperChars == "ABCDEFGHIJKLMNOPQRSTUVWXYZ"
LowerChars == "abcdefghijklmnopqrstuvwxyz"
Digits == "0123456789"

IndexIn(c, alphabet) ==
    IF \E i \in 1..Len(alphabet) : Ch(alphabet, i) = c
    THEN CHOOSE i \in 1..Len(alphabet) : Ch(alphabet, i) = c
    ELSE 0

IsDigit(c) == IndexIn(c, Digits) > 0

\* float(s) succeeds: the model covers the decimal integers (the delay-seconds
\* form of Retry-After); any other text raises ValueError.
IsNumeric(s) == Len(s) > 0 /\ \A i \in 1..Len(s) : IsDigit(Ch(s, i))

RECURSIVE ToNumber(_)
ToNumber(s) ==
    IF Len(s) = 0 THEN 0
    ELSE 10 * ToNumber(SubSeq(s, 1, Len(s) - 1)) + (IndexIn(Ch(s, Len(s)), Digits) - 1)

Min(a, b) == IF b < a THEN b ELSE a

\* The characters of the model in code point order.
CodePoints == " +,-./0123456789:ABCDEFGHIJKLMNOPQRSTUVWXYZabcdefghijklmnopqrstuvwxyz"
Ord(c) == IndexIn(c, CodePoints)

IsUpper(c) == IndexIn(c, UpperChars) > 0
IsLower(c) == IndexIn(c, LowerChars) > 0
LowerCh(c) == IF IsUpper(c) THEN Ch(LowerChars, IndexIn(c, UpperChars)) ELSE c
UpperCh(c) == IF IsLower(c) THEN Ch(UpperChars, IndexIn(c, LowerChars)) ELSE c

\* str.lower(), str.upper()
RECURSIVE Lower(_)
Lower(s) == IF Len(s) = 0 THEN "" ELSE LowerCh(Ch(s, 1)) \o Lower(Tail(s))
RECURSIVE Upper(_)
Upper(s) == IF Len(s) = 0 THEN "" ELSE UpperCh(Ch(s, 1)) \o Upper(Tail(s))

\* str.strip()
RECURSIVE LStrip(_)
LStrip(s) == IF Len(s) > 0 /\ Ch(s, 1) = " " THEN LStrip(Tail(s)) ELSE s
RECURSIVE RStrip(_)
RStrip(s) ==
    IF Len(s) > 0 /\ Ch(s, Len(s)) = " " THEN RStrip(SubSeq(s, 1, Len(s) - 1)) ELSE s
Strip(s) == RStrip(LStrip(s))

\* str.title(): a letter that follows a letter is lower-cased, any other
\* letter is upper-cased.
RECURSIVE TitleFrom(_, _)
TitleFrom(s, i) ==
    IF i > Len(s) THEN ""
    ELSE LET c == Ch(s, i)
             afterLetter == i > 1 /\ (IsUpper(Ch(s, i - 1)) \/ IsLower(Ch(s, i - 1)))
         IN  (IF afterLetter THEN LowerCh(c) ELSE UpperCh(c)) \o TitleFrom(s, i + 1)
Title(s) == TitleFrom(s, 1)

\* a < b for str: by code point, a proper prefix first.
RECURSIVE StrLess(_, _)
StrLess(a, b) ==
    IF a = b \/ Len(b) = 0 THEN FALSE
    ELSE IF Len(a) = 0 THEN TRUE
    ELSE IF Ch(a, 1) = Ch(b, 1) THEN StrLess(Tail(a), Tail(b))
    ELSE Ord(Ch(a, 1)) < Ord(Ch(b, 1))

\* s.split(",")
RECURSIVE SplitFrom(_, _, _)
SplitFrom(s, i, cur) ==
    IF i > Len(s) THEN <<cur>>
    ELSE IF Ch(s, i) = "," THEN <<cur>> \o SplitFrom(s, i + 1, "")
    ELSE SplitFrom(s, i + 1, cur \o Ch(s, i))
Split(s) == SplitFrom(s, 1, "")

\* sep.join(l)
RECURSIVE Join(_, _)
Join(sep, l) ==
    IF Len(l) = 0 THEN ""
    ELSE IF Len(l) = 1 THEN l[1]
    ELSE l[1] \o sep \o Join(sep, Tail(l))

Range(l) == {l[k] : k \in 1..Len(l)}

\* sorted(l) for a list of str: a stable insertion sort.
RECURSIVE InsertStr(_, _)
InsertStr(x, l) ==
    IF Len(l) = 0 THEN <<x>>
    ELSE IF StrLess(x, l[1]) THEN <<x>> \o l
    ELSE <<l[1]>> \o InsertStr(x, Tail(l))
RECURSIVE SortedStrs(_)
SortedStrs(l) ==
    IF Len(l) = 0 THEN <<>>
    ELSE InsertStr(l[Len(l)], SortedStrs(SubSeq(l, 1, Len(l) - 1)))

\* sorted(set(...)) for a set of str.
RECURSIVE SortedSet(_)
SortedSet(S) ==
    IF S = {} THEN <<>>
    ELSE LET m == CHOOSE x \in S : \A y \in S \ {x} : StrLess(x, y)
         IN  <<m>> \o SortedSet(S \ {m})

(***************************************************************************)
(* call_with_backoff: one HTTP call with retry on 429.                     *)
(*   callState : "idle" (no call in progress), "running" (inside the for   *)
(*               loop, about to issue request number attempt), "returned"  *)
(*               or "raised"                                               *)
(*   attempt   : the loop variable                                         *)
(*   callExc   : the exception a raised call ended with                    *)
(*   callResp  : the response a returned call hands back                   *)
(*   trace     : the requests and sleeps of the call, in order             *)
(***************************************************************************)
VARIABLES callState, attempt, callExc, callResp, trace

callVars == <<callState, attempt, callExc, callResp, trace>>

\* A JSON object of a response body: keys are the keys present, the other
\* fields their values (meaningless for a key that is absent).  A value that
\* is a str or a list of str is [py |-> its Python type, v |-> the strings].
PyNone == [py |-> "None", v |-> <<>>]
PyStr(s) == [py |-> "str", v |-> <<s>>]
PyList(l) == [py |-> "list", v |-> l]

Json(keys, results, rating1, rating2, genre, genres) ==
    [keys |-> keys, results |-> results, imdbrating |-> rating1,
     imdbRating |-> rating2, genre |-> genre, genres |-> genres]
EmptyJson == Json({}, <<>>, "", "", PyNone, PyNone)

\* dict.get(key, default)
Get(d, key, default) == IF key \in d.keys THEN d[key] ELSE default

\* dict.get(key, default) for a dict kept as a sequence of [key, val].
Keys(d) == {d[k].key : k \in 1..Len(d)}
DictGet(d, key, default) ==
    IF key \in Keys(d) THEN d[CHOOSE k \in 1..Len(d) : d[k].key = key].val ELSE default

\* bool(x) for a str or a list of str or None.
Truthy(x) == x.py # "None" /\ x.v # <<>> /\ ~(x.py = "str" /\ x.v[1] = "")

NoResp == [net |-> "ok", status |-> 0, retry_after |-> "", json_ok |-> FALSE, data |-> EmptyJson]

\* What requests.request can bring back: no response at all (net is the
\* exception it raises), or a response with a status, a Retry-After header
\* ("" when absent) and a body (json_ok: the body parses as JSON; data: the
\* parsed value).
RetryAfterHints == {"", "7", "120", "Wed, 21 Oct 2015 07:28:00 GMT"}
ErrorStatuses == {404, 500}

Response(status, hint, ok, data) ==
    [net |-> "ok", status |-> status, retry_after |-> hint, json_ok |-> ok, data |-> data]

Unreachable == [NoResp EXCEPT !.net = "ConnectionError"]

RateLimited == {Response(429, h, FALSE, EmptyJson) : h \in RetryAfterHints}
\* The 429 of the specifications of the callers of call_with_backoff: what a
\* caller does never depends on the hint.
RateLimitedPlain == {Response(429, "", FALSE, EmptyJson)}
Failures == {Response(s, "", FALSE, EmptyJson) : s \in ErrorStatuses} \cup {Unreachable}
\* A 200 whose body is not JSON: resp.json() raises.
Garbage == Response(200, "", FALSE, EmptyJson)

Event(ev, n, r, w) == [ev |-> ev, attempt |-> n, resp |-> r, wait |-> w]

\* resp.raise_for_status(): HTTPError for a 4xx or 5xx status.
RaisesForServerErrorOnly(status) == status >= 500 /\ status < 600
RaisesForStatus(status) == status >= 400 /\ status < 600

\* The wait after a 429 (lines 126-133).
BackoffWaitUncapped(retry_after, n) ==
    IF retry_after # "" /\ IsNumeric(retry_after)
    THEN Min(ToNumber(retry_after), BACKOFF_CAP)
    ELSE BACKOFF_BASE ^ n
BackoffWait(retry_after, n) ==
    IF retry_after # "" /\ IsNumeric(retry_after)
    THEN Min(ToNumber(retry_after), BACKOFF_CAP)
    ELSE Min(BACKOFF_BASE ^ n, BACKOFF_CAP)

\* The caller enters call_with_backoff.
StartCall ==
    /\ callState' = "running"
    /\ attempt' = 1
    /\ callExc' = "none"
    /\ callResp' = NoResp
    /\ trace' = <<>>

\* What one iteration that met a 429 does: the request, then the sleep
\* (lines 118-139).
RetryWithoutSleep(req, slp) == <<req>>
RateLimitedIteration(req, slp) == <<req, slp>>

\* range(1, max_retries + 1) has no value after n: the loop ends and lines
\* 141-146 raise.
GiveUpEarly(n, max_retries) == n >= max_retries - 1
GiveUp(n, max_retries) == n >= max_retries

\* One iteration of the for loop, with response r to its request; the last
\* iteration falls through to the raise after the loop.
HttpRequest(r, max_retries) ==
    /\ callState = "running"
    /\ attempt <= max_retries
    /\ LET req == Event("request", attempt, r, 0)
       IN  IF r.net # "ok"
           THEN /\ callState' = "raised"
                /\ callExc' = r.net
                /\ trace' = Append(trace, req)
                /\ UNCHANGED <<attempt, callResp>>
           ELSE IF r.status # 429
           THEN IF RaisesForStatus(r.status)
                THEN /\ callState' = "raised"
                     /\ callExc' = "HTTPError"
                     /\ trace' = Append(trace, req)
                     /\ UNCHANGED <<attempt, callResp>>
                ELSE /\ callState' = "returned"
                     /\ callResp' = r
                     /\ trace' = Append(trace, req)
                     /\ UNCHANGED <<attempt, callExc>>
           ELSE LET wait == BackoffWait(r.retry_after, attempt)
                IN  /\ trace' = trace \o RateLimitedIteration(req, Event("sleep", attempt, r, wait))
                    /\ attempt' = attempt + 1
                    /\ UNCHANGED callResp
                    /\ IF GiveUp(attempt, max_retries)
                       THEN callState' = "raised" /\ callExc' = "RateLimitExhausted"
                       ELSE UNCHANGED <<callState, callExc>>

\* The caller has taken the result of the call.
EndCall ==
    /\ callState' = "idle"
    /\ attempt' = 1
    /\ callExc' = "none"
    /\ callResp' = NoResp
    /\ trace' = <<>>

CallInit ==
    /\ callState = "idle"
    /\ attempt = 1
    /\ callExc = "none"
    /\ callResp = NoResp
    /\ trace = <<>>

CallDone == callState \in {"returned", "raised"}

(***************************************************************************)
(* The trace of a call.                                                    *)
(***************************************************************************)
Requests == SelectSeq(trace, LAMBDA e : e.ev = "request")
Sleeps == SelectSeq(trace, LAMBDA e : e.ev = "sleep")

(***************************************************************************)
(* Raw titles, as /getnew returns them.  A raw title is a dict; keys holds *)
(* the keys present.  streamingAvailability.country is a dict in insertion *)
(* order: a sequence of [key, val], val the list of service entries.       *)
(***************************************************************************)
REGIONS == <<"US", "IN">>

Service(name) == [keys |-> {"platform"}, platform |-> name]
NamelessService == [keys |-> {}, platform |-> ""]
KV(k, v) == [key |-> k, val |-> v]
Availability(country_map) == [keys |-> {"country"}, country |-> country_map]
NoAvailability == [keys |-> {}, country |-> <<>>]

RawTitle(keys, imdbid, title, released, type, language, streaming) ==
    [keys |-> keys, imdbid |-> imdbid, title |-> title, released |-> released,
     type |-> type, language |-> language, streamingAvailability |-> streaming]

AllKeys == {"imdbid", "title", "released", "type", "language", "streamingAvailability"}

\* Hindi and Tamil, listed under both regions, with alias and spelling
\* variants of the same services.
RawJawan ==
    RawTitle(AllKeys, "tt0001", "Jawan", "2023", "movie",
             PyList(<<"Hindi", " tamil", "English">>),
             Availability(<<KV("US", <<Service("Netflix"), Service(" NETFLIX "),
                                       Service("Zee 5")>>),
                            KV("IN", <<Service("Disney+ Hotstar"), Service("JioCinema"),
                                       Service("zee5"), NamelessService>>)>>))
\* A series whose language is a single str and whose region key is
\* lower-case.
RawFarzi ==
    RawTitle(AllKeys, "tt0002", "Farzi", "2023", " Series ",
             PyStr("Telugu"),
             Availability(<<KV("us", <<Service("Amazon Prime Video"),
                                       Service("Apple TV+")>>)>>))
\* No Indian language.
RawDune ==
    RawTitle(AllKeys, "tt0003", "Dune", "2021", "movie",
             PyList(<<"English", "French">>),
             Availability(<<KV("US", <<Service("Netflix")>>),
                            KV("IN", <<Service("Prime Video")>>)>>))
\* No imdbid.
RawUntitled ==
    RawTitle(AllKeys \ {"imdbid", "released"}, "", "Untitled", "", "movie",
             PyList(<<"Hindi">>),
             Availability(<<KV("US", <<Service("Hulu")>>)>>))
\* Listed only under another country; repeated and blank languages; no type.
RawKantara ==
    RawTitle(AllKeys \ {"type"}, "tt0004", "Kantara", "", "",
             PyList(<<"kannada", "KANNADA ", "", "Hindi">>),
             Availability(<<KV("GB", <<Service("Hulu"), Service("hotstar"),
                                       Service("Mubi")>>)>>))
\* The same title as RawJawan seen again, with no language and no listing.
RawBare ==
    RawTitle({"imdbid", "title"}, "tt0001", "Jawan", "", "", PyNone, NoAvailability)

\* The same identifier as RawJawan under another title and language.
RawJawanDubbed ==
    RawTitle(AllKeys, "tt0001", "Jawan (Tamil)", "2023", "movie",
             PyStr("Tamil"),
             Availability(<<KV("US", <<Service("netflix")>>)>>))

RawPool ==
    <<RawJawan, RawFarzi, RawDune, RawUntitled, RawKantara, RawBare, RawJawanDubbed>>

(***************************************************************************)
(* Filtering and extraction helpers (lines 70-84, 257-300).                *)
(***************************************************************************)
TARGET_PLATFORMS ==
    {"netflix", "prime video", "amazon prime video", "hulu", "hotstar",
     "disney+ hotstar", "jiocinema", "zee5", "zee 5"}

INDIAN_LANGUAGE_NAMES ==
    {"hindi", "tamil", "telugu", "malayalam", "kannada", "bengali", "marathi",
     "gujarati", "punjabi", "odia", "assamese", "urdu", "sanskrit", "nepali",
     "sindhi", "konkani", "manipuri", "dogri", "santali", "maithili", "kashmiri",
     "bhojpuri"}

\* The mapping of _normalise_platform.
PlatformMapping ==
    [low \in {"netflix", "amazon prime video", "prime video", "hulu", "hotstar",
              "disney+ hotstar", "jiocinema", "zee5", "zee 5"} |->
        CASE low = "netflix" -> "Netflix"
          [] low \in {"amazon prime video", "prime video"} -> "Prime Video"
          [] low = "hulu" -> "Hulu"
          [] low \in {"hotstar", "disney+ hotstar", "jiocinema"} -> "Hotstar"
          [] low \in {"zee5", "zee 5"} -> "Zee5"]

_normalise_platform(name) ==
    LET low == Lower(Strip(name))
    IN  IF low \in DOMAIN PlatformMapping THEN PlatformMapping[low] ELSE Strip(name)

AnyPlatformPasses(name) == TRUE
_is_target_platform(name) == Lower(Strip(name)) \in TARGET_PLATFORMS

AnyLanguagePasses(languages) == Len(languages) > 0
is_indian_content(languages) ==
    \E k \in 1..Len(languages) : Lower(Strip(languages[k])) \in INDIAN_LANGUAGE_NAMES

RECURSIVE SeenNames(_, _)
SeenNames(languages, seen) ==
    IF Len(languages) = 0 THEN seen
    ELSE LET name == Title(Strip(languages[1]))
         IN  SeenNames(Tail(languages),
                       IF name # "" /\ name \notin Range(seen)
                       THEN Append(seen, name) ELSE seen)

readable_languages(languages) == Join(", ", SortedStrs(SeenNames(languages, <<>>)))

\* genres is a set of lower-case str (the result of _parse_genres).
classify_type(raw_type, genres) ==
    IF genres # {} /\ "documentary" \in genres THEN "documentary"
    ELSE IF raw_type # "" /\ Lower(Strip(raw_type)) = "series" THEN "web-series"
    ELSE "movie"

(***************************************************************************)
(* fetch_new_arrivals: the paginator.                                      *)
(*   pgState     : "idle", "loop" (at the while test), "call" (inside      *)
(*                 call_with_backoff), "returned" or "raised"              *)
(*   region, page, all_results : the function's variables                  *)
(*   pgExc       : the exception a raised fetch propagates                 *)
(*   pageLen     : the number of records of a full page of the upstream    *)
(*   requested   : the page numbers requested, in order                    *)
(*   served      : the pages received and parsed, in order                 *)
(*   lastCall    : how the last call_with_backoff ended                    *)
(***************************************************************************)
VARIABLES pgState, region, page, all_results, pgExc, pageLen, requested, served,
          lastCall

pagerVars == <<pgState, region, page, all_results, pgExc, pageLen, requested,
               served, lastCall>>

MaxPageLen == 2

RegionIndex(r) == CHOOSE k \in 1..Len(REGIONS) : REGIONS[k] = r

\* Record i of page p of region r: the upstream walks RawPool round and
\* round, so that pages overlap.
Catalog(r, p, i) ==
    RawPool[(((RegionIndex(r) - 1) + (p - 1) * pageLen + (i - 1)) % Len(RawPool)) + 1]

PageBody(r, p, n) ==
    Json({"results"}, [i \in 1..n |-> Catalog(r, p, i)], "", "", PyNone, PyNone)

\* The responses to a request for page p: a full page, a page of one or of
\* no record, a body without "results", a body that is not JSON, a 429, an
\* HTTP error, no response.
PageResponses(r, p) ==
    {Response(200, "", TRUE, PageBody(r, p, n)) : n \in {0, 1, pageLen}}
        \cup {Response(200, "", TRUE, EmptyJson), Garbage}
        \cup RateLimitedPlain \cup Failures

\* while page <= MAX_PAGES_PER_REGION (line 163)
LoopsPastCap(p) == p <= MAX_PAGES_PER_REGION + 1
LoopContinues(p) == p <= MAX_PAGES_PER_REGION

\* except RateLimitExhausted (line 170)
PagerCatchesNothing(exc) == FALSE
PagerCatches(exc) == exc = "RateLimitExhausted"

\* len(results) <= 1 (line 181)
EndOfData(results) == Len(results) <= 1

\* all_results.extend(results) (lines 183, 186)
ExtendAtFront(all, results) == results \o all
Extend(all, results) == all \o results

\* all_results.extend(results) on the end-of-data page (line 183)
DropLastPage(all, results) == all
ExtendLastPage(all, results) == Extend(all, results)

FetchStart(r) ==
    /\ pgState = "idle"
    /\ region' = r
    /\ all_results' = <<>>
    /\ page' = 1
    /\ pgState' = IF LoopContinues(1) THEN "loop" ELSE "returned"
    /\ pgExc' = "none"
    /\ requested' = <<>>
    /\ served' = <<>>
    /\ lastCall' = "none"
    /\ UNCHANGED pageLen

\* line 165: the call for the current page starts.
PageCall ==
    /\ pgState = "loop"
    /\ callState = "idle"
    /\ StartCall
    /\ pgState' = "call"
    /\ requested' = Append(requested, page)
    /\ UNCHANGED <<region, page, all_results, pgExc, pageLen, served, lastCall>>

PageRequest ==
    /\ pgState = "call"
    /\ \E r \in PageResponses(region, page) : HttpRequest(r, MAX_RETRIES)
    /\ UNCHANGED pagerVars

\* The call is over: lines 170-191.
PageHandle ==
    /\ pgState = "call"
    /\ CallDone
    /\ EndCall
    /\ UNCHANGED <<region, pageLen, requested>>
    /\ IF callState = "raised"
       THEN /\ lastCall' = callExc
            /\ UNCHANGED <<page, all_results, served>>
            /\ IF PagerCatches(callExc)
               THEN pgState' = "returned" /\ UNCHANGED pgExc
               ELSE pgState' = "raised" /\ pgExc' = callExc
       ELSE IF ~callResp.json_ok
       THEN /\ lastCall' = "JSONDecodeError"
            /\ pgState' = "raised"
            /\ pgExc' = "JSONDecodeError"
            /\ UNCHANGED <<page, all_results, served>>
       ELSE LET results == Get(callResp.data, "results", <<>>)
            IN  /\ lastCall' = "none"
                /\ all_results' = IF EndOfData(results)
                                   THEN ExtendLastPage(all_results, results)
                                   ELSE Extend(all_results, results)
                /\ served' = Append(served, [page |-> page, results |-> results])
                /\ UNCHANGED pgExc
                /\ IF EndOfData(results)
                   THEN pgState' = "returned" /\ UNCHANGED page
                   ELSE /\ page' = page + 1
                        /\ pgState' = IF LoopContinues(page + 1) THEN "loop" ELSE "returned"

PagerInit ==
    /\ pgState = "idle"
    /\ region = REGIONS[1]
    /\ page = 1
    /\ all_results = <<>>
    /\ pgExc = "none"
    /\ requested = <<>>
    /\ served = <<>>
    /\ lastCall = "none"

PagerDone == pgState \in {"returned", "raised"}

RECURSIVE Flatten(_)
Flatten(pages) ==
    IF pages = <<>> THEN <<>> ELSE pages[1].results \o Flatten(Tail(pages))

(***************************************************************************)
(* fetch_title_details: the rating lookup batch.                           *)
(*   enState  : "idle", "loop" (at the head of the for loop), "call"       *)
(*              (inside call_with_backoff), "returned" or "raised"         *)
(*   ids      : sorted(set(imdb_ids))                                      *)
(*   en_i     : the loop index i (the id in hand is ids[en_i + 1])         *)
(*   cache    : the dict returned, in insertion order                      *)
(*   enExc    : the exception a raised batch propagates                    *)
(*   lookups  : the ids for which call_with_backoff was entered, in order  *)
(*   outcomes : how each finished lookup ended, in order                   *)
(***************************************************************************)
VARIABLES enState, ids, en_i, cache, enExc, lookups, outcomes

enrichVars == <<enState, ids, en_i, cache, enExc, lookups, outcomes>>

\* The bodies /getTitleDetails answers with.
DetailRated == Json({"imdbrating", "genre"}, <<>>, "8", "", PyStr("Drama, Documentary"), PyNone)
DetailCamel == Json({"imdbRating", "genres"}, <<>>, "", "7", PyNone, PyList(<<"Action", " Thriller">>))
DetailUnrated == Json({"imdbrating", "imdbRating", "genre"}, <<>>, "N/A", "n/a", PyStr(""), PyNone)
DetailPool == {DetailRated, DetailCamel, DetailUnrated, EmptyJson}

DetailResponses ==
    {Response(200, "", TRUE, d) : d \in DetailPool} \cup {Garbage}
        \cup RateLimitedPlain \cup Failures

\* except RateLimitExhausted: break (lines 217-223)
EnrichStopsNever(exc) == FALSE
EnrichStops(exc) == exc = "RateLimitExhausted"

\* except requests.HTTPError: log and go on (lines 224-225)
EnrichSkips(exc) == exc = "HTTPError"

EnrichStart(imdb_ids) ==
    /\ enState = "idle"
    /\ cache' = <<>>
    /\ ids' = SortedSet(imdb_ids)
    /\ en_i' = 0
    /\ enState' = IF imdb_ids = {} THEN "returned" ELSE "loop"
    /\ enExc' = "none"
    /\ lookups' = <<>>
    /\ outcomes' = <<>>

\* for i, imdb_id in enumerate(ids): the id of iteration i (line 209).
IdInHandFirst(l, i) == l[1]
IdInHand(l, i) == l[i + 1]

\* line 211: the call for the id in hand starts.
EnrichCall ==
    /\ enState = "loop"
    /\ callState = "idle"
    /\ StartCall
    /\ enState' = "call"
    /\ lookups' = Append(lookups, IdInHand(ids, en_i))
    /\ UNCHANGED <<ids, en_i, cache, enExc, outcomes>>

EnrichRequest ==
    /\ enState = "call"
    /\ \E r \in DetailResponses : HttpRequest(r, MAX_RETRIES)
    /\ UNCHANGED enrichVars

\* The call is over: lines 216-230.
EnrichHandle ==
    /\ enState = "call"
    /\ CallDone
    /\ EndCall
    /\ UNCHANGED <<ids, lookups>>
    /\ LET imdb_id == IdInHand(ids, en_i)
           goOn == /\ en_i' = en_i + 1
                   /\ enState' = IF en_i + 1 < Len(ids) THEN "loop" ELSE "returned"
                   /\ UNCHANGED enExc
           outcome(o) == outcomes' = Append(outcomes, [id |-> imdb_id, outcome |-> o])
       IN  IF callState = "raised"
           THEN /\ outcome(callExc)
                /\ UNCHANGED cache
                /\ IF EnrichStops(callExc)
                   THEN enState' = "returned" /\ UNCHANGED <<en_i, enExc>>
                   ELSE IF EnrichSkips(callExc)
                   THEN goOn
                   ELSE enState' = "raised" /\ enExc' = callExc /\ UNCHANGED en_i
           ELSE IF ~callResp.json_ok
           THEN /\ outcome("JSONDecodeError")
                /\ enState' = "raised"
                /\ enExc' = "JSONDecodeError"
                /\ UNCHANGED <<cache, en_i>>
           ELSE /\ outcome("ok")
                /\ cache' = Append(cache, KV(imdb_id, callResp.data))
                /\ goOn

EnrichInit ==
    /\ enState = "idle"
    /\ ids = <<>>
    /\ en_i = 0
    /\ cache = <<>>
    /\ enExc = "none"
    /\ lookups = <<>>
    /\ outcomes = <<>>

\* A rating: None, or the float float(raw) gives.
NoRating == [py |-> "None", n |-> 0]
Rating(n) == [py |-> "float", n |-> n]

_parse_imdb_rating(detail) ==
    LET raw1 == Get(detail, "imdbrating", "")
        raw2 == Get(detail, "imdbRating", "")
    IN  IF raw1 # "" /\ raw1 # "N/A" /\ IsNumeric(raw1) THEN Rating(ToNumber(raw1))
        ELSE IF raw2 # "" /\ raw2 # "N/A" /\ IsNumeric(raw2) THEN Rating(ToNumber(raw2))
        ELSE NoRating

_parse_genres(detail) ==
    LET g1 == Get(detail, "genre", PyNone)
        g2 == Get(detail, "genres", PyNone)
        genres == IF Truthy(g1) THEN g1 ELSE IF Truthy(g2) THEN g2 ELSE PyList(<<>>)
        list == IF genres.py = "str"
                THEN LET parts == Split(genres.v[1])
                     IN  [k \in 1..Len(parts) |-> Strip(parts[k])]
                ELSE genres.v
    IN  {Lower(Strip(list[k])) : k \in {j \in 1..Len(list) : list[j] # ""}}

(***************************************************************************)
(* main.                                                                   *)
(*   mainPc     : "idle" (not started), "phase1" (the loop over REGIONS),  *)
(*                "phase2" (the loop over raw_titles), "phase3" (inside    *)
(*                fetch_title_details), "phase4" (the sorts), "report"     *)
(*                (the rows are final and go to the writers), "crashed"    *)
(*                (an exception left main)                                 *)
(*   region_i   : the position of the phase 1 loop in REGIONS              *)
(*   fetched    : for each region phase 1 has been through, how its fetch  *)
(*                ended (exc) and the records the fetch held then (got)    *)
(*   raw_titles : the (region, title) pairs of phase 1                     *)
(*   idx        : the position of the phase 2 loop in raw_titles           *)
(*   rows, seen, imdb_ids_for_enrichment : main's variables                *)
(*   rowsFrom   : for each raw title phase 2 has been through, the number  *)
(*                of rows it added                                         *)
(*   candidates : the rows built for the keys that reached the test of     *)
(*                line 606, in order                                       *)
(*   rowsBefore : rows as it was before the last pass over it (the         *)
(*                enrichment loop, then the sorts)                         *)
(***************************************************************************)
VARIABLES mainPc, raw_titles, idx, rows, seen, imdb_ids_for_enrichment, rowsFrom,
          candidates, rowsBefore, region_i, fetched

mainVars == <<mainPc, raw_titles, idx, rows, seen, imdb_ids_for_enrichment, rowsFrom,
              candidates, rowsBefore, region_i, fetched>>

today_str == "2024-01-05"
RankSentinel == 99

Row(title, year, type, languages, platform, country, imdb_id) ==
    [title |-> title, year |-> year, type |-> type, languages |-> languages,
     platform |-> platform, country |-> country, date_added |-> today_str,
     imdb_id |-> imdb_id, imdb_rating |-> NoRating]

\* except requests.HTTPError: skip the region (lines 554-556)
MainCatchesNothing(exc) == FALSE
MainCatches(exc) == exc = "HTTPError"

\* for title in results: raw_titles.append((region, title)) (lines 559-560)
RegionPairs(r, results) == [k \in 1..Len(results) |-> [region |-> r, title |-> results[k]]]

\* main starts with the API key set: lines 529-549.
MainStart ==
    /\ mainPc = "idle"
    /\ mainPc' = "phase1"
    /\ raw_titles' = <<>>
    /\ region_i' = 1
    /\ fetched' = <<>>
    /\ UNCHANGED <<idx, rows, seen, imdb_ids_for_enrichment, rowsFrom, candidates,
                   rowsBefore>>

\* line 553: main enters fetch_new_arrivals for the next region.
RegionBegin ==
    /\ mainPc = "phase1"
    /\ region_i <= Len(REGIONS)
    /\ FetchStart(REGIONS[region_i])
    /\ UNCHANGED mainVars

\* fetch_new_arrivals is over: lines 553-564, and lines 570-572 after the
\* last region.
RegionEnd ==
    /\ mainPc = "phase1"
    /\ PagerDone
    /\ fetched' = Append(fetched, [region |-> region, exc |-> pgExc, got |-> all_results])
    /\ IF pgState = "returned"
       THEN /\ raw_titles' = raw_titles \o RegionPairs(region, all_results)
            /\ region_i' = region_i + 1
            /\ mainPc' = IF region_i < Len(REGIONS) THEN "phase1" ELSE "phase2"
       ELSE IF MainCatches(pgExc)
       THEN /\ region_i' = region_i + 1
            /\ mainPc' = IF region_i < Len(REGIONS) THEN "phase1" ELSE "phase2"
            /\ UNCHANGED raw_titles
       ELSE /\ mainPc' = "crashed"
            /\ UNCHANGED <<raw_titles, region_i>>
    /\ pgState' = "idle"
    /\ region' = REGIONS[1]
    /\ page' = 1
    /\ all_results' = <<>>
    /\ pgExc' = "none"
    /\ requested' = <<>>
    /\ served' = <<>>
    /\ lastCall' = "none"
    /\ UNCHANGED <<pageLen, idx, rows, seen, imdb_ids_for_enrichment, rowsFrom, candidates,
                   rowsBefore>>

\* if key in seen: continue (lines 606-607): the candidate is dropped, the
\* rows stay as they are.
ReplaceKept(kept, row) ==
    [k \in 1..Len(kept) |->
        IF <<kept[k].imdb_id, kept[k].platform, kept[k].country>>
             = <<row.imdb_id, row.platform, row.country>>
        THEN row ELSE kept[k]]
DropCandidate(kept, row) == kept

\* key in seen (line 606)
NeverSeen(key, seenKeys) == FALSE
AlreadySeen(key, seenKeys) == key \in seenKeys

\* title.get("language") or [], a str wrapped in a list (lines 579-581)
LanguagesOf(title) ==
    LET l == Get(title, "language", PyNone)
    IN  IF Truthy(l) THEN l.v ELSE <<>>

\* lines 587-597
PlatformsForRegion(title, r) ==
    LET streaming == Get(title, "streamingAvailability", NoAvailability)
        country_map == Get(streaming, "country", <<>>)
        exact == DictGet(country_map, r, <<>>)
        lower == IF exact = <<>> THEN DictGet(country_map, Lower(r), <<>>) ELSE exact
    IN  IF lower = <<>> /\ country_map # <<>> THEN country_map[1].val ELSE lower

\* The loop over platforms_for_region (lines 599-621); st is [rows, seen, ids,
\* cand].
RECURSIVE AddRows(_, _, _, _)
AddRows(entries, r, title, st) ==
    IF Len(entries) = 0 THEN st
    ELSE LET plat_name == Get(entries[1], "platform", "")
             canonical == _normalise_platform(plat_name)
             imdb_id == Get(title, "imdbid", "")
             key == <<imdb_id, canonical, r>>
             released == Get(title, "released", "")
             row == Row(Get(title, "title", ""), released, Get(title, "type", "movie"),
                        readable_languages(LanguagesOf(title)), canonical, Upper(r),
                        imdb_id)
         IN  IF ~_is_target_platform(plat_name)
             THEN AddRows(Tail(entries), r, title, st)
             ELSE IF AlreadySeen(key, st.seen)
             THEN AddRows(Tail(entries), r, title,
                          [st EXCEPT !.rows = DropCandidate(st.rows, row),
                                     !.cand = Append(st.cand, row)])
             ELSE AddRows(Tail(entries), r, title,
                          [rows |-> Append(st.rows, row),
                           seen |-> st.seen \cup {key},
                           ids |-> st.ids \cup {imdb_id},
                           cand |-> Append(st.cand, row)])

\* if not imdb_id: continue (lines 576-577)
NoIdMissing(imdb_id) == FALSE
MissingId(imdb_id) == imdb_id = ""

\* One pass of the loop over raw_titles (lines 574-621).
FlattenTitle(r, title, st) ==
    IF MissingId(Get(title, "imdbid", "")) THEN st
    ELSE IF ~is_indian_content(LanguagesOf(title)) THEN st
    ELSE AddRows(PlatformsForRegion(title, r), r, title, st)

FlattenStep ==
    /\ mainPc = "phase2"
    /\ idx <= Len(raw_titles)
    /\ LET st == FlattenTitle(raw_titles[idx].region, raw_titles[idx].title,
                              [rows |-> rows, seen |-> seen,
                               ids |-> imdb_ids_for_enrichment,
                               cand |-> candidates])
       IN  /\ rows' = st.rows
           /\ seen' = st.seen
           /\ imdb_ids_for_enrichment' = st.ids
           /\ candidates' = st.cand
           /\ rowsFrom' = Append(rowsFrom, Len(st.rows) - Len(rows))
    /\ idx' = idx + 1
    /\ UNCHANGED <<mainPc, raw_titles, rowsBefore, region_i, fetched>>

\* line 631: main enters fetch_title_details.
EnrichBegin ==
    /\ mainPc = "phase2"
    /\ idx > Len(raw_titles)
    /\ EnrichStart(imdb_ids_for_enrichment)
    /\ mainPc' = "phase3"
    /\ UNCHANGED <<raw_titles, idx, rows, seen, imdb_ids_for_enrichment, rowsFrom,
                   candidates, rowsBefore, region_i, fetched>>

\* An exception of fetch_title_details has no handler in main.
EnrichCrash ==
    /\ mainPc = "phase3"
    /\ enState = "raised"
    /\ mainPc' = "crashed"
    /\ UNCHANGED <<raw_titles, idx, rows, seen, imdb_ids_for_enrichment, rowsFrom,
                   candidates, rowsBefore, region_i, fetched>>

\* lines 633-639
DetailOfAny(details, imdb_id) == IF details = <<>> THEN EmptyJson ELSE details[1].val
DetailOf(details, imdb_id) == DictGet(details, imdb_id, EmptyJson)

EnrichedRow(r, details) ==
    LET detail == DetailOf(details, r.imdb_id)
    IN  IF detail.keys = {} THEN r
        ELSE [r EXCEPT !.imdb_rating = _parse_imdb_rating(detail),
                       !.type = classify_type(r.type, _parse_genres(detail))]

ApplyDetails ==
    /\ mainPc = "phase3"
    /\ enState = "returned"
    /\ rows' = [k \in 1..Len(rows) |-> EnrichedRow(rows[k], cache)]
    /\ rowsBefore' = rows
    /\ mainPc' = "phase4"
    /\ UNCHANGED <<raw_titles, idx, seen, imdb_ids_for_enrichment, rowsFrom, candidates,
                   region_i, fetched>>

\* lines 644-652: two stable sorts.
country_order(c) == CASE c = "US" -> 0 [] c = "IN" -> 1 [] OTHER -> RankSentinel
platform_order(pl) ==
    CASE pl = "Netflix" -> 0 [] pl = "Prime Video" -> 1 [] pl = "Hulu" -> 2
      [] pl = "Hotstar" -> 3 [] pl = "Zee5" -> 4 [] OTHER -> RankSentinel

\* key=lambda r: r["date_added"], reverse=True (line 648)
DateAscending(a, b) == StrLess(a.date_added, b.date_added)
DateBefore(a, b) == StrLess(b.date_added, a.date_added)
RankBefore(a, b) ==
    \/ country_order(a.country) < country_order(b.country)
    \/ /\ country_order(a.country) = country_order(b.country)
       /\ platform_order(a.platform) < platform_order(b.platform)

\* list.sort is stable: the last element goes before the first element of
\* the sorted rest that it is strictly before, after every element it ties
\* with.
RECURSIVE InsertByDate(_, _)
InsertByDate(x, l) ==
    IF Len(l) = 0 THEN <<x>>
    ELSE IF DateBefore(x, l[1]) THEN <<x>> \o l
    ELSE <<l[1]>> \o InsertByDate(x, Tail(l))
RECURSIVE SortByDateDesc(_)
SortByDateDesc(l) ==
    IF Len(l) = 0 THEN <<>>
    ELSE InsertByDate(l[Len(l)], SortByDateDesc(SubSeq(l, 1, Len(l) - 1)))

RECURSIVE InsertByRank(_, _)
InsertByRank(x, l) ==
    IF Len(l) = 0 THEN <<x>>
    ELSE IF RankBefore(x, l[1]) THEN <<x>> \o l
    ELSE <<l[1]>> \o InsertByRank(x, Tail(l))
RECURSIVE SortByRank(_)
SortByRank(l) ==
    IF Len(l) = 0 THEN <<>>
    ELSE InsertByRank(l[Len(l)], SortByRank(SubSeq(l, 1, Len(l) - 1)))

SortRows ==
    /\ mainPc = "phase4"
    /\ rows' = SortByRank(SortByDateDesc(rows))
    /\ rowsBefore' = rows
    /\ mainPc' = "report"
    /\ UNCHANGED <<raw_titles, idx, seen, imdb_ids_for_enrichment, rowsFrom, candidates,
                   region_i, fetched>>

MainInit ==
    /\ mainPc = "idle"
    /\ raw_titles = <<>>
    /\ idx = 1
    /\ rows = <<>>
    /\ seen = {}
    /\ imdb_ids_for_enrichment = {}
    /\ rowsFrom = <<>>
    /\ candidates = <<>>
    /\ rowsBefore = <<>>
    /\ region_i = 1
    /\ fetched = <<>>

(***************************************************************************)
(* src/organize_files.py: organize_files.                                  *)
(*   orgPc     : "idle", "loop" (inside the loop over os.listdir), "done"  *)
(*               (it returned), "crashed" (an exception left it)           *)
(*   dry_run   : the argument                                              *)
(*   top_files : the names of the regular files directly in source_dir     *)
(*   top_dirs  : the names of the directories directly in source_dir       *)
(*   inside    : the files in those directories, [dir, name, data]; data   *)
(*               is "old" for a file that was there before the run and the *)
(*               source name of a file the run moved in                    *)
(*   pending   : the entries of os.listdir(source_dir) not yet visited     *)
(*   moved     : the dict returned, as [category, entry] in the order of   *)
(*               the appends                                               *)
(*   top0, dirs0, inside0 : the file system when the run started           *)
(*   placed    : for each shutil.move, the entry, its destination and      *)
(*               whether the destination name was free before the move     *)
(***************************************************************************)
VARIABLES orgPc, dry_run, top_files, top_dirs, inside, pending, moved,
          top0, dirs0, inside0, placed

orgVars == <<orgPc, dry_run, top_files, top_dirs, inside, pending, moved,
             top0, dirs0, inside0, placed>>

Category(name, exts) == [name |-> name, exts |-> exts]

\* lines 20-30, in the order of the dict
CATEGORIES ==
    <<Category("Images", {".jpg", ".jpeg", ".png", ".gif", ".bmp", ".svg", ".webp",
                          ".ico", ".tiff", ".tif"}),
      Category("Documents", {".pdf", ".doc", ".docx", ".txt", ".rtf", ".odt", ".xls",
                             ".xlsx", ".ppt", ".pptx", ".csv"}),
      Category("Audio", {".mp3", ".wav", ".flac", ".aac", ".ogg", ".wma", ".m4a"}),
      Category("Video", {".mp4", ".avi", ".mkv", ".mov", ".wmv", ".flv", ".webm", ".m4v"}),
      Category("Archives", {".zip", ".tar", ".gz", ".bz2", ".rar", ".7z", ".xz", ".tgz"}),
      Category("Code", {".py", ".js", ".ts", ".java", ".c", ".cpp", ".h", ".cs", ".go",
                        ".rs", ".rb", ".php", ".html", ".css", ".sh", ".bat"}),
      Category("Data", {".json", ".xml", ".yaml", ".yml", ".toml", ".ini", ".cfg", ".sql",
                        ".db", ".sqlite"}),
      Category("Fonts", {".ttf", ".otf", ".woff", ".woff2", ".eot"}),
      Category("Executables", {".exe", ".msi", ".dmg", ".app", ".deb", ".rpm", ".bin"})>>

\* os.path.splitext of a name without separators: the extension starts at
\* the last dot, unless only dots come before it.
SplitExt(p) ==
    LET dots == {i \in 1..Len(p) : Ch(p, i) = "."}
        dot == IF dots = {} THEN 0 ELSE CHOOSE i \in dots : \A j \in dots : j <= i
    IN  IF dot > 0 /\ \E j \in 1..(dot - 1) : Ch(p, j) # "."
        THEN <<SubSeq(p, 1, dot - 1), SubSeq(p, dot, Len(p))>>
        ELSE <<p, "">>

\* lines 33-39
get_category(filename) ==
    LET ext == Lower(SplitExt(filename)[2])
        hits == {k \in 1..Len(CATEGORIES) : ext \in CATEGORIES[k].exts}
    IN  IF hits = {} THEN "Other"
        ELSE CATEGORIES[CHOOSE k \in hits : \A j \in hits : k <= j].name

\* str(counter) in the f-string of line 76
RECURSIVE IntStr(_)
IntStr(n) ==
    IF n < 10 THEN Ch(Digits, n + 1)
    ELSE IntStr(n \div 10) \o Ch(Digits, (n % 10) + 1)

\* os.path.exists(os.path.join(source_dir, dir, name)) (lines 72, 75)
Exists(dir, name, dirs, files) ==
    dir \in dirs /\ \E e \in files : e.dir = dir /\ e.name = name

\* The while loop of lines 75-77.
RECURSIVE Numbered(_, _, _, _, _, _)
Numbered(dir, base, ext, counter, dirs, files) ==
    LET name == base \o "_" \o IntStr(counter) \o ext
    IN  IF Exists(dir, name, dirs, files)
        THEN Numbered(dir, base, ext, counter + 1, dirs, files)
        ELSE name

\* The name of dest_path inside category_dir (lines 69-77).
DestName(entry, category, dirs, files) ==
    IF Exists(category, entry, dirs, files)
    THEN Numbered(category, SplitExt(entry)[1], SplitExt(entry)[2], 1, dirs, files)
    ELSE entry

\* lines 52-60: source_dir is a directory; os.listdir is read once.
OrganizeStart ==
    /\ orgPc = "idle"
    /\ orgPc' = "loop"
    /\ pending' = top_files \cup top_dirs
    /\ moved' = <<>>
    /\ UNCHANGED <<dry_run, top_files, top_dirs, inside, top0, dirs0, inside0, placed>>

\* One pass of the loop (lines 60-86) for an entry of the listing, which
\* comes in any order.  os.makedirs(category_dir, exist_ok=True) raises
\* FileExistsError when category_dir is a regular file.
OrganizeEntry ==
    /\ orgPc = "loop"
    /\ \E entry \in pending :
          LET category == get_category(entry)
              dest == DestName(entry, category, top_dirs, inside)
          IN  /\ pending' = pending \ {entry}
              /\ IF entry \in top_dirs
                 THEN UNCHANGED <<orgPc, top_files, top_dirs, inside, moved, placed>>
                 ELSE IF dry_run
                 THEN /\ moved' = Append(moved, [category |-> category, entry |-> entry])
                      /\ UNCHANGED <<orgPc, top_files, top_dirs, inside, placed>>
                 ELSE IF category \in top_files
                 THEN /\ orgPc' = "crashed"
                      /\ UNCHANGED <<top_files, top_dirs, inside, moved, placed>>
                 ELSE /\ top_dirs' = top_dirs \cup {category}
                      /\ top_files' = top_files \ {entry}
                      /\ inside' = {e \in inside : ~(e.dir = category /\ e.name = dest)}
                                     \cup {[dir |-> category, name |-> dest, data |-> entry]}
                      /\ moved' = Append(moved, [category |-> category, entry |-> entry])
                      /\ placed' = Append(placed,
                                     [entry |-> entry, dir |-> category, name |-> dest,
                                      fresh |-> ~Exists(category, dest, top_dirs, inside)])
                      /\ UNCHANGED orgPc
    /\ UNCHANGED <<dry_run, top0, dirs0, inside0>>

\* line 88
OrganizeReturn ==
    /\ orgPc = "loop"
    /\ pending = {}
    /\ orgPc' = "done"
    /\ UNCHANGED <<dry_run, top_files, top_dirs, inside, pending, moved,
                   top0, dirs0, inside0, placed>>

OrganizeInit ==
    /\ orgPc = "idle"
    /\ dry_run = FALSE
    /\ top_files = {}
    /\ top_dirs = {}
    /\ inside = {}
    /\ pending = {}
    /\ moved = <<>>
    /\ top0 = {}
    /\ dirs0 = {}
    /\ inside0 = {}
    /\ placed = <<>>

vars == <<callVars, pagerVars, enrichVars, mainVars, orgVars>>


(***************************************************************************)
(* SpecBackoff: one call of call_with_backoff against every sequence of    *)
(* responses.                                                              *)
(***************************************************************************)
BackoffBodies == {EmptyJson, Json({"results"}, <<>>, "", "", PyNone, PyNone)}
BackoffResponses ==
    RateLimited \cup Failures \cup {Response(200, "", TRUE, b) : b \in BackoffBodies}

BackoffStart ==
    /\ callState = "idle"
    /\ StartCall
    /\ UNCHANGED <<orgVars, pagerVars, enrichVars, mainVars>>
BackoffRequest ==
    /\ \E r \in BackoffResponses : HttpRequest(r, MAX_RETRIES)
    /\ UNCHANGED <<orgVars, pagerVars, enrichVars, mainVars>>

InitBackoff == CallInit /\ PagerInit /\ pageLen = MaxPageLen /\ EnrichInit /\ MainInit /\ OrganizeInit
NextBackoff == BackoffStart \/ BackoffRequest
SpecBackoff == InitBackoff /\ [][NextBackoff]_vars

Status(i) == Requests[i].resp.status
Is429(i) == Requests[i].resp.net = "ok" /\ Status(i) = 429
IsSuccess(i) == Requests[i].resp.net = "ok" /\ Status(i) = 200
IsHttpError(i) == Requests[i].resp.net = "ok" /\ Status(i) \in ErrorStatuses

C4_ErrorFailsImmediately ==
    \A i \in 1..Len(trace) :
        (trace[i].ev = "request" /\ trace[i].resp.net = "ok"
            /\ trace[i].resp.status \in ErrorStatuses)
        => /\ i = Len(trace)
           /\ callState = "raised"
           /\ callExc = "HTTPError"

C4_Witness ==
    /\ callState = "raised" /\ callExc = "HTTPError"
    /\ Len(Requests) = 3 /\ Is429(1) /\ Is429(2) /\ IsHttpError(3)

\* C5: when the first k responses are 429 (k < MAX_RETRIES) and response k+1
\* is a success, the call returns that response, and the trace is request,
\* sleep, request, sleep, ..., request: k sleeps, one between each pair of
\* consecutive requests.
C5_RetryThenSuccess ==
    \A k \in 0..(MAX_RETRIES - 1) :
        (Len(Requests) = k + 1 /\ (\A i \in 1..k : Is429(i)) /\ IsSuccess(k + 1))
        => /\ callState = "returned"
           /\ callResp = Requests[k + 1].resp
           /\ Len(Sleeps) = k
           /\ Len(trace) = 2 * k + 1
           /\ \A j \in 1..Len(trace) :
                 trace[j].ev = (IF j % 2 = 1 THEN "request" ELSE "sleep")

C5_Witness ==
    /\ callState = "returned"
    /\ Len(Requests) = 2 /\ Is429(1) /\ IsSuccess(2)
    /\ Len(Sleeps) = 1

(***************************************************************************)
(* SpecPager: one call of fetch_new_arrivals against every upstream.       *)
(***************************************************************************)
PagerStart ==
    /\ \E r \in Range(REGIONS) : FetchStart(r)
    /\ UNCHANGED <<orgVars, callVars, enrichVars, mainVars>>
PagerCall == PageCall /\ UNCHANGED <<orgVars, enrichVars, mainVars>>
PagerRequest == PageRequest /\ UNCHANGED <<orgVars, enrichVars, mainVars>>
PagerHandle == PageHandle /\ UNCHANGED <<orgVars, enrichVars, mainVars>>

InitPager ==
    CallInit /\ PagerInit /\ pageLen \in 2..MaxPageLen /\ EnrichInit /\ MainInit /\ OrganizeInit
NextPager == PagerStart \/ PagerCall \/ PagerRequest \/ PagerHandle
SpecPager == InitPager /\ [][NextPager]_vars
SpecPagerFair == SpecPager /\ WF_vars(NextPager)

PagesInOrder(s) == \A k \in 1..Len(s) : s[k] = k

\* C1: when the call for page N ends with RateLimitExhausted, the fetch
\* returns (it does not raise), N is the last page requested, and the result
\* is the records of pages 1..N-1 in page order.
C1_PartialOnExhaustion ==
    lastCall = "RateLimitExhausted"
    => /\ pgState = "returned"
       /\ PagesInOrder(requested)
       /\ Len(served) = Len(requested) - 1
       /\ \A k \in 1..Len(served) : served[k].page = k
       /\ all_results = Flatten(served)

C1_Witness ==
    /\ lastCall = "RateLimitExhausted"
    /\ pgState = "returned"
    /\ Len(requested) = 3
    /\ Len(all_results) = 2 * pageLen

C6_Safe ==
    /\ PagesInOrder(requested)
    /\ Len(requested) <= MAX_PAGES_PER_REGION
    /\ \A k \in 1..Len(served) :
          Len(served[k].results) <= 1
          => k = Len(served) /\ Len(requested) = served[k].page /\ pgState = "returned"

\* C6: the pages requested are 1, 2, 3, ... in order, none beyond
\* MAX_PAGES_PER_REGION; a page of 0 or 1 records is the last page requested
\* and ends the fetch; and every fetch ends (it returns or raises).
C6_BoundedPagination == []C6_Safe /\ <>PagerDone

C6_Witness ==
    /\ pgState = "returned"
    /\ Len(requested) = MAX_PAGES_PER_REGION
    /\ Len(served) = MAX_PAGES_PER_REGION
    /\ Len(served[MAX_PAGES_PER_REGION].results) = pageLen

(***************************************************************************)
(* SpecEnrich: one call of fetch_title_details, for every set of ids and   *)
(* every upstream.                                                         *)
(***************************************************************************)
IdPool == {"tt0001", "tt0002", "tt0004", "tt0010"}
MaxIds == 3
IdSets == {S \in SUBSET IdPool : Cardinality(S) <= MaxIds}

EnStart ==
    /\ \E S \in IdSets : EnrichStart(S)
    /\ UNCHANGED <<orgVars, callVars, pagerVars, mainVars>>
EnCall == EnrichCall /\ UNCHANGED <<orgVars, pagerVars, mainVars>>
EnRequest == EnrichRequest /\ UNCHANGED <<orgVars, pagerVars, mainVars>>
EnHandle == EnrichHandle /\ UNCHANGED <<orgVars, pagerVars, mainVars>>

InitEnrich == CallInit /\ PagerInit /\ pageLen = MaxPageLen /\ EnrichInit /\ MainInit /\ OrganizeInit
NextEnrich == EnStart \/ EnCall \/ EnRequest \/ EnHandle
SpecEnrich == InitEnrich /\ [][NextEnrich]_vars

OutcomeIs(k, o) == outcomes[k].outcome = o
Exhausted == \E k \in 1..Len(outcomes) : OutcomeIs(k, "RateLimitExhausted")
OkIds == SelectSeq(outcomes, LAMBDA o : o.outcome = "ok")

\* C9: a lookup that fails (transport error, body that is not JSON, HTTP
\* error, rating that does not parse) costs only its own identifier: no
\* exception leaves the batch, and a batch that was not cut short by rate
\* limiting has looked up every identifier and holds the detail of every
\* identifier whose lookup succeeded.
C9_FailureStaysLocal ==
    /\ enState # "raised"
    /\ (enState = "returned" /\ ~Exhausted)
       => /\ lookups = ids
          /\ \A k \in 1..Len(outcomes) : OutcomeIs(k, "ok") => outcomes[k].id \in Keys(cache)

\* C10: when a lookup ends with RateLimitExhausted the batch returns without
\* raising; it was the last lookup, so no request goes out for the later ids
\* of the sorted order; the result holds exactly the details of the ids
\* looked up successfully before it, and neither the failing id nor a later
\* one.
C10_PartialOnExhaustion ==
    \A k \in 1..Len(outcomes) :
        OutcomeIs(k, "RateLimitExhausted")
        => /\ enState = "returned"
           /\ enExc = "none"
           /\ k = Len(outcomes)
           /\ lookups = SubSeq(ids, 1, k)
           /\ \A a, b \in 1..Len(ids) : a < b => StrLess(ids[a], ids[b])
           /\ Len(cache) = Len(OkIds)
           /\ \A j \in 1..Len(cache) : cache[j].key = OkIds[j].id
           /\ \A j \in k..Len(ids) : ids[j] \notin Keys(cache)

C10_Witness ==
    /\ enState = "returned"
    /\ Len(ids) = 3
    /\ Len(outcomes) = 2
    /\ OutcomeIs(1, "ok") /\ OutcomeIs(2, "RateLimitExhausted")
    /\ Keys(cache) = {ids[1]}

(***************************************************************************)
(* SpecPipeline: phases 2 to 4 of main, for every list of raw titles that  *)
(* phase 1 can hand over (the titles of REGIONS[1] before those of         *)
(* REGIONS[2]) and every upstream of the rating lookups.                   *)
(***************************************************************************)
MaxRaw == 2

\* What the regions list: a title under both, titles under one only.
Listed(r) ==
    IF r = "US" THEN {RawJawan, RawFarzi, RawDune, RawUntitled, RawJawanDubbed}
    ELSE {RawJawan, RawFarzi, RawDune, RawKantara, RawBare}
RawPairs ==
    UNION {{[region |-> r, title |-> t] : t \in Listed(r)} : r \in Range(REGIONS)}
RawInputs ==
    {l \in UNION {[1..n -> RawPairs] : n \in 0..MaxRaw} :
        \A a, b \in 1..Len(l) :
            a < b => RegionIndex(l[a].region) <= RegionIndex(l[b].region)}

PipeFlatten == FlattenStep /\ UNCHANGED <<orgVars, callVars, pagerVars, enrichVars>>
PipeEnrichBegin == EnrichBegin /\ UNCHANGED <<orgVars, callVars, pagerVars>>
PipeCall == EnrichCall /\ UNCHANGED <<orgVars, pagerVars, mainVars>>
\* The detail /getTitleDetails holds for an identifier, and the responses to
\* request number n of a lookup of it: that detail or a 429, and to the first
\* request also an empty object, a body that is not JSON, an HTTP error, no
\* response.  (Every mix of responses within one call is in SpecBackoff and
\* SpecEnrich; what main sees of a lookup is only how it ended.)
DetailCatalog(imdb_id) ==
    CASE imdb_id = "tt0001" -> DetailRated
      [] imdb_id = "tt0002" -> DetailCamel
      [] OTHER -> DetailUnrated
LookupResponses(imdb_id, n) ==
    {Response(200, "", TRUE, DetailCatalog(imdb_id))} \cup RateLimitedPlain
        \cup IF n = 1
             THEN {Response(200, "", TRUE, EmptyJson), Garbage} \cup Failures
             ELSE {}

PipeRequest ==
    /\ enState = "call"
    /\ \E r \in LookupResponses(IdInHand(ids, en_i), attempt) :
          HttpRequest(r, MAX_RETRIES)
    /\ UNCHANGED <<orgVars, pagerVars, enrichVars, mainVars>>
PipeHandle == EnrichHandle /\ UNCHANGED <<orgVars, pagerVars, mainVars>>
PipeCrash == EnrichCrash /\ UNCHANGED <<orgVars, callVars, pagerVars, enrichVars>>
PipeApply == ApplyDetails /\ UNCHANGED <<orgVars, callVars, pagerVars, enrichVars>>
PipeSort == SortRows /\ UNCHANGED <<orgVars, callVars, pagerVars, enrichVars>>

InitPipeline ==
    /\ CallInit /\ PagerInit /\ pageLen = MaxPageLen /\ EnrichInit /\ OrganizeInit
    /\ mainPc = "phase2"
    /\ raw_titles \in RawInputs
    /\ idx = 1
    /\ rows = <<>>
    /\ seen = {}
    /\ imdb_ids_for_enrichment = {}
    /\ rowsFrom = <<>>
    /\ candidates = <<>>
    /\ rowsBefore = <<>>
    /\ region_i = 1
    /\ fetched = <<>>
NextPipeline ==
    \/ PipeFlatten \/ PipeEnrichBegin \/ PipeCall \/ PipeRequest \/ PipeHandle
    \/ PipeCrash \/ PipeApply \/ PipeSort
SpecPipeline == InitPipeline /\ [][NextPipeline]_vars

RowKey(r) == <<r.imdb_id, r.platform, r.country>>

\* C7: in the final row set no two rows have the same (titleId, platform,
\* region).
C7_UniqueKeys ==
    mainPc = "report"
    => \A a, b \in 1..Len(rows) : a # b => RowKey(rows[a]) # RowKey(rows[b])

\* The same title twice in one region (overlapping pages), listed there as
\* "Disney+ Hotstar" and as "JioCinema": one Hotstar row.
C7_Witness ==
    /\ mainPc = "report"
    /\ Len(raw_titles) = 2
    /\ raw_titles[1] = [region |-> "IN", title |-> RawJawan]
    /\ raw_titles[2] = raw_titles[1]
    /\ Cardinality({k \in 1..Len(rows) : rows[k].platform = "Hotstar"}) = 1
    /\ Len(rows) = 2

HasIndianLanguage(title) ==
    LET l == title.language
    IN  /\ "language" \in title.keys
        /\ \E k \in 1..Len(l.v) : Lower(Strip(l.v[k])) \in INDIAN_LANGUAGE_NAMES

NamesIndianLanguage(languages) ==
    LET names == Split(languages)
    IN  \E k \in 1..Len(names) : Lower(Strip(names[k])) \in INDIAN_LANGUAGE_NAMES

\* C8: a raw record with no language of the reference set adds no row, and
\* every row of the final row set has a languages field that is not empty
\* and names a language of the reference set.
C8_IndianLanguageOnly ==
    mainPc = "report"
    => /\ Len(rowsFrom) = Len(raw_titles)
       /\ \A k \in 1..Len(rowsFrom) :
             ~HasIndianLanguage(raw_titles[k].title) => rowsFrom[k] = 0
       /\ \A k \in 1..Len(rows) :
             rows[k].languages # "" /\ NamesIndianLanguage(rows[k].languages)

C8_Witness ==
    /\ mainPc = "report"
    /\ Len(raw_titles) = 2
    /\ raw_titles[1] = [region |-> "US", title |-> RawDune]
    /\ raw_titles[2] = [region |-> "IN", title |-> RawKantara]
    /\ rowsFrom = <<0, 2>>
    /\ \A k \in 1..Len(rows) : rows[k].languages = "Hindi, Kannada"


\* C11: within one run no identifier is looked up twice: the lookups of
\* fetch_title_details are for pairwise distinct identifiers, each the
\* identifier of a row, however many rows share it and however the earlier
\* lookups ended.
C11_OneLookupPerId ==
    /\ \A a, b \in 1..Len(lookups) : a # b => lookups[a] # lookups[b]
    /\ Range(lookups) \subseteq imdb_ids_for_enrichment
    /\ imdb_ids_for_enrichment = {rows[k].imdb_id : k \in 1..Len(rows)}

\* Two rows share tt0001, whose lookup fails with an HTTP error; tt0002 is
\* looked up next, tt0001 never again.
C11_Witness ==
    /\ mainPc = "report"
    /\ Len(rows) = 3
    /\ Cardinality({k \in 1..Len(rows) : rows[k].imdb_id = "tt0001"}) = 2
    /\ lookups = <<"tt0001", "tt0002">>
    /\ OutcomeIs(1, "HTTPError")


(***************************************************************************)
(* SpecSort: the two sort passes of phase 4 (lines 644-652) applied to     *)
(* every short list of rows over a few dates, regions and platforms, some  *)
(* of them outside country_order and platform_order.  The row at position  *)
(* k of the list carries the identifier Tagged(k).                         *)
(***************************************************************************)
MaxSortRows == 3

Tagged(k) == "tt000" \o Ch(Digits, k + 1)
SortDates == {"2024-01-01", "2024-01-02", "2024-01-05"}
SortPlaces ==
    {<<"US", "Netflix">>, <<"US", "Zee5">>, <<"IN", "Netflix">>, <<"GB", "Netflix">>,
     <<"US", "Mubi">>}
SortRow(k, place, date) ==
    [Row("", "", "movie", "Hindi", place[2], place[1], Tagged(k))
        EXCEPT !.date_added = date]
SortInput(n, f) == [k \in 1..n |-> SortRow(k, f[k][1], f[k][2])]

SortOnly == SortRows /\ UNCHANGED <<orgVars, callVars, pagerVars, enrichVars>>

InitSort ==
    /\ CallInit /\ PagerInit /\ pageLen = MaxPageLen /\ EnrichInit /\ OrganizeInit
    /\ mainPc = "phase4"
    /\ raw_titles = <<>>
    /\ idx = 1
    /\ \E n \in 0..MaxSortRows :
          \E f \in [1..n -> SortPlaces \X SortDates] : rows = SortInput(n, f)
    /\ seen = {}
    /\ imdb_ids_for_enrichment = {}
    /\ rowsFrom = <<>>
    /\ candidates = <<>>
    /\ rowsBefore = <<>>
    /\ region_i = 1
    /\ fetched = <<>>
NextSort == SortOnly
SpecSort == InitSort /\ [][NextSort]_vars

SortKeys(l) == [k \in 1..Len(l) |-> <<l[k].country, l[k].platform, l[k].date_added>>]
PosBefore(r) == CHOOSE k \in 1..Len(rowsBefore) : rowsBefore[k] = r
KnownRegions == {"US", "IN"}
KnownPlatforms == {"Netflix", "Prime Video", "Hulu", "Hotstar", "Zee5"}

\* C12: the sorted rows are the rows given, ordered by region rank, then by
\* platform rank, then within one (region, platform) by date descending,
\* rows equal on all three in the order they had; a row of an unknown region
\* comes after every row of a known one, and within one region a row of an
\* unknown platform after every row of a known one; the three rows of the
\* example come out as (US, Netflix, 2024-01-05), (US, Zee5, 2024-01-02),
\* (IN, Netflix, 2024-01-01).
C12_SortOrder ==
    mainPc = "report"
    => /\ Len(rows) = Len(rowsBefore)
       /\ Range(rows) = Range(rowsBefore)
       /\ \A a, b \in 1..Len(rows) :
             a < b =>
               LET x == rows[a]
                   y == rows[b]
                   sameRegion == country_order(x.country) = country_order(y.country)
                   samePlace == x.country = y.country /\ x.platform = y.platform
               IN  /\ country_order(x.country) <= country_order(y.country)
                   /\ sameRegion => platform_order(x.platform) <= platform_order(y.platform)
                   /\ samePlace => ~StrLess(x.date_added, y.date_added)
                   /\ (samePlace /\ x.date_added = y.date_added)
                        => PosBefore(x) < PosBefore(y)
                   /\ y.country \in KnownRegions => x.country \in KnownRegions
                   /\ (x.country = y.country /\ y.platform \in KnownPlatforms)
                        => x.platform \in KnownPlatforms
       /\ SortKeys(rowsBefore) = <<<<"US", "Zee5", "2024-01-02">>,
                                   <<"US", "Netflix", "2024-01-05">>,
                                   <<"IN", "Netflix", "2024-01-01">>>>
          => SortKeys(rows) = <<<<"US", "Netflix", "2024-01-05">>,
                                <<"US", "Zee5", "2024-01-02">>,
                                <<"IN", "Netflix", "2024-01-01">>>>

\* The three rows of the example, sorted.
C12_Witness ==
    /\ mainPc = "report"
    /\ SortKeys(rowsBefore) = <<<<"US", "Zee5", "2024-01-02">>,
                                <<"US", "Netflix", "2024-01-05">>,
                                <<"IN", "Netflix", "2024-01-01">>>>
    /\ SortKeys(rows) = <<<<"US", "Netflix", "2024-01-05">>,
                          <<"US", "Zee5", "2024-01-02">>,
                          <<"IN", "Netflix", "2024-01-01">>>>


(***************************************************************************)
(* SpecMain: one run of main with the API key set, against an upstream     *)
(* whose /getnew has at most MaxCatalogPages full pages per region.        *)
(***************************************************************************)
MaxCatalogPages == 1

\* The responses to a request for page p of /getnew.
CatalogResponses(r, p) ==
    {Response(200, "", TRUE, PageBody(r, p, n)) :
        n \in IF p <= MaxCatalogPages THEN {0, 1, pageLen} ELSE {0, 1}}
        \cup {Garbage} \cup RateLimitedPlain \cup Failures

MainBegin == MainStart /\ UNCHANGED <<orgVars, callVars, pagerVars, enrichVars>>
MainRegionBegin == RegionBegin /\ UNCHANGED <<orgVars, callVars, enrichVars>>
MainPageCall == PageCall /\ UNCHANGED <<orgVars, enrichVars, mainVars>>
MainPageRequest ==
    /\ pgState = "call"
    /\ \E r \in CatalogResponses(region, page) : HttpRequest(r, MAX_RETRIES)
    /\ UNCHANGED <<orgVars, pagerVars, enrichVars, mainVars>>
MainPageHandle == PageHandle /\ UNCHANGED <<orgVars, enrichVars, mainVars>>
MainRegionEnd == RegionEnd /\ UNCHANGED <<orgVars, callVars, enrichVars>>

InitMain ==
    CallInit /\ PagerInit /\ pageLen \in 2..MaxPageLen /\ EnrichInit /\ MainInit /\ OrganizeInit
NextMain ==
    \/ MainBegin \/ MainRegionBegin \/ MainPageCall \/ MainPageRequest
    \/ MainPageHandle \/ MainRegionEnd
    \/ PipeFlatten \/ PipeEnrichBegin \/ PipeCall \/ PipeRequest \/ PipeHandle
    \/ PipeCrash \/ PipeApply \/ PipeSort
SpecMain == InitMain /\ [][NextMain]_vars

\* C13: no run aborts before the report: no exception leaves main before
\* the rows go to the writers, whatever pages, regions or rating lookups
\* fail.
C13_NeverAborts == mainPc # "crashed"


RECURSIVE Kept(_)
Kept(f) ==
    IF f = <<>> THEN <<>>
    ELSE (IF f[1].exc = "none"
          THEN [k \in 1..Len(f[1].got) |-> [region |-> f[1].region, title |-> f[1].got[k]]]
          ELSE <<>>) \o Kept(Tail(f))

\* C14: a region whose fetch ends with an HTTP error other than 429 is
\* skipped entirely: none of its records, not even those of the pages
\* fetched before the error, is a raw title or gives a row; the regions are
\* queried in the configured order and the error does not end the run: the
\* next region is queried, and the raw titles are the records of the
\* regions whose fetch returned, all of them through phase 2 by the time of
\* the report.
C14_RegionSkipped ==
    /\ \A k \in 1..Len(fetched) :
          /\ fetched[k].region = REGIONS[k]
          /\ fetched[k].exc = "HTTPError"
             => /\ \A j \in 1..Len(raw_titles) : raw_titles[j].region # fetched[k].region
                /\ \A j \in 1..Len(rows) : rows[j].country # Upper(fetched[k].region)
          /\ fetched[k].exc \notin {"none", "HTTPError"}
             => k = Len(fetched) /\ mainPc = "crashed"
    /\ mainPc = "phase1" => region_i = Len(fetched) + 1 /\ region_i <= Len(REGIONS)
    /\ mainPc \in {"phase2", "phase3", "phase4", "report"} => Len(fetched) = Len(REGIONS)
    /\ mainPc = "crashed"
       => \/ enState = "raised" /\ Len(fetched) = Len(REGIONS)
          \/ fetched[Len(fetched)].exc \notin {"none", "HTTPError"}
    /\ raw_titles = Kept(fetched)
    /\ mainPc = "report" => Len(rowsFrom) = Len(raw_titles)

\* The first page of US is fetched, the second ends with an HTTP error; IN
\* is fetched and gives the only rows of the report.
C14_Witness ==
    /\ mainPc = "report"
    /\ fetched[1].exc = "HTTPError"
    /\ Len(fetched[1].got) = pageLen
    /\ fetched[1].got[1] = RawJawan
    /\ fetched[2].exc = "none"
    /\ Len(rows) > 0
    /\ \A k \in 1..Len(rows) : rows[k].country = "IN"


ContentTypes == {"movie", "web-series", "documentary"}

\* C15: every row of the final row set has a type in {movie, web-series,
\* documentary}, whatever type the raw title carries and however the
\* enrichment ended.
C15_TypeInEnum ==
    mainPc = "report" => \A k \in 1..Len(rows) : rows[k].type \in ContentTypes

\* The service names of the listing phase 2 reads for raw title k, trimmed
\* and in lower case.
ServiceNames(k) ==
    LET entries == PlatformsForRegion(raw_titles[k].title, raw_titles[k].region)
    IN  {Lower(Strip(entries[j].platform)) :
            j \in {i \in 1..Len(entries) : "platform" \in entries[i].keys}}

\* C16: every row comes from a service whose trimmed, lower-case name is a
\* target platform name and carries the canonical name the alias table
\* gives that name, one of the five; the alias table covers every target
\* name; a raw title none of whose services is a target adds no row.
C16_TargetPlatformsOnly ==
    /\ TARGET_PLATFORMS \subseteq DOMAIN PlatformMapping
    /\ mainPc = "report"
       => /\ \A k \in 1..Len(rows) :
                /\ rows[k].platform \in KnownPlatforms
                /\ \E j \in 1..Len(raw_titles) :
                      /\ raw_titles[j].title.imdbid = rows[k].imdb_id
                      /\ Upper(raw_titles[j].region) = rows[k].country
                      /\ \E n \in ServiceNames(j) \cap TARGET_PLATFORMS :
                            PlatformMapping[n] = rows[k].platform
          /\ \A j \in 1..Len(rowsFrom) :
                ServiceNames(j) \cap TARGET_PLATFORMS = {} => rowsFrom[j] = 0

\* Farzi lists Amazon Prime Video and Apple TV+: one row, Prime Video; Dune
\* has target services only, but no Indian language; Bare lists nothing.
C16_Witness ==
    /\ mainPc = "report"
    /\ Len(raw_titles) = 2
    /\ raw_titles[1] = [region |-> "US", title |-> RawFarzi]
    /\ raw_titles[2] = [region |-> "IN", title |-> RawBare]
    /\ rowsFrom = <<1, 0>>
    /\ rows[1].platform = "Prime Video"


C18_SleepThenRetry ==
    CallDone
    => /\ \A i \in 1..Len(trace) :
             trace[i].ev = "sleep" => i < Len(trace) /\ trace[i + 1].ev = "request"
       /\ callExc = "RateLimitExhausted" => Len(Sleeps) = MAX_RETRIES - 1

(***************************************************************************)
(* SpecLongBackoff: one call of call_with_backoff with max_retries =        *)
(* LongRetries, long enough for BACKOFF_BASE ** attempt to pass             *)
(* BACKOFF_CAP, against every sequence of 429s and a final answer.          *)
(***************************************************************************)
LongRetries == 7

LongResponses == RateLimited \cup {Response(200, "", TRUE, EmptyJson)}

LongStart ==
    /\ callState = "idle"
    /\ StartCall
    /\ UNCHANGED <<orgVars, pagerVars, enrichVars, mainVars>>
LongRequest ==
    /\ \E r \in LongResponses : HttpRequest(r, LongRetries)
    /\ UNCHANGED <<orgVars, pagerVars, enrichVars, mainVars>>

InitLongBackoff == CallInit /\ PagerInit /\ pageLen = MaxPageLen /\ EnrichInit /\ MainInit /\ OrganizeInit
NextLongBackoff == LongStart \/ LongRequest
SpecLongBackoff == InitLongBackoff /\ [][NextLongBackoff]_vars

RECURSIVE FirstOccurrences(_)
FirstOccurrences(l) ==
    IF l = <<>> THEN <<>>
    ELSE LET front == SubSeq(l, 1, Len(l) - 1)
             last == l[Len(l)]
         IN  IF \E j \in 1..Len(front) : RowKey(front[j]) = RowKey(last)
             THEN FirstOccurrences(front)
             ELSE Append(FirstOccurrences(front), last)

\* C20: until the sorts the rows are the first occurrences of the keys
\* among the candidates, in the order of the candidates: during phase 2 and
\* the lookups the rows themselves, after the enrichment loop the rows as
\* they were before it, and the enriched rows still have those keys in
\* that order.
C20_FirstOccurrences ==
    /\ mainPc \in {"phase2", "phase3"} => rows = FirstOccurrences(candidates)
    /\ mainPc = "phase4"
       => /\ rowsBefore = FirstOccurrences(candidates)
          /\ [k \in 1..Len(rows) |-> RowKey(rows[k])]
               = [k \in 1..Len(rowsBefore) |-> RowKey(rowsBefore[k])]

\* Jawan is listed as "Netflix", " NETFLIX " and "Zee 5", then comes the
\* dubbed Jawan on "netflix": four candidates, and the two rows are the
\* first Netflix candidate and the Zee5 one.
C20_Witness ==
    /\ mainPc = "phase3"
    /\ raw_titles = <<[region |-> "US", title |-> RawJawan],
                      [region |-> "US", title |-> RawJawanDubbed]>>
    /\ Len(candidates) = 4
    /\ candidates[4].title = "Jawan (Tamil)"
    /\ [k \in 1..Len(rows) |-> <<rows[k].title, rows[k].platform>>]
         = <<<<"Jawan", "Netflix">>, <<"Jawan", "Zee5">>>>


(***************************************************************************)
(* SpecNormalise: one pass of the phase 2 loop (lines 574-621) over one    *)
(* raw title, for both regions and every per-country structure of up to    *)
(* MaxCountryKeys keys, each key with an empty or a one-service entry.     *)
(***************************************************************************)
MaxCountryKeys == 2

CountryKeys == {"US", "us", "IN", "in", "GB"}
ServiceLists == {<<>>, <<Service("Netflix")>>, <<Service("Hulu")>>, <<Service("hotstar")>>}

\* A Tamil film with an identifier; only its per-country structure varies.
RawListed(country_map) ==
    RawTitle(AllKeys, "tt0005", "Vikram", "2022", "movie", PyStr("Tamil"),
             Availability(country_map))

CountryMap(n, ks, vs) == [k \in 1..n |-> KV(ks[k], vs[k])]

NormaliseOnly == FlattenStep /\ UNCHANGED <<orgVars, callVars, pagerVars, enrichVars>>

InitNormalise ==
    /\ CallInit /\ PagerInit /\ pageLen = MaxPageLen /\ EnrichInit /\ OrganizeInit
    /\ mainPc = "phase2"
    /\ \E r \in Range(REGIONS) :
          \E n \in 0..MaxCountryKeys :
             \E ks \in [1..n -> CountryKeys] :
                \E vs \in [1..n -> ServiceLists] :
                   /\ \A a, b \in 1..n : a # b => ks[a] # ks[b]
                   /\ raw_titles
                        = <<[region |-> r, title |-> RawListed(CountryMap(n, ks, vs))]>>
    /\ idx = 1
    /\ rows = <<>>
    /\ seen = {}
    /\ imdb_ids_for_enrichment = {}
    /\ rowsFrom = <<>>
    /\ candidates = <<>>
    /\ rowsBefore = <<>>
    /\ region_i = 1
    /\ fetched = <<>>
NextNormalise == NormaliseOnly
SpecNormalise == InitNormalise /\ [][NextNormalise]_vars

\* The entry the fallback policy names: the one under the region key if the
\* key is present, else the one under the lower-case key if that is
\* present, else the one of the first key.
EntryByPresence(country_map, r) ==
    IF r \in Keys(country_map) THEN DictGet(country_map, r, <<>>)
    ELSE IF Lower(r) \in Keys(country_map) THEN DictGet(country_map, Lower(r), <<>>)
    ELSE IF country_map # <<>> THEN country_map[1].val
    ELSE <<>>

CanonicalNames(entries) ==
    [k \in 1..Len(entries) |-> _normalise_platform(Get(entries[k], "platform", ""))]

\* C21: the rows of a raw title carry the services of the entry under the
\* requested region key; those of the entry under the lower-case key only
\* when the requested key is absent; those of the first key's entry only
\* when both are absent.
C21_EntryByKeyPresence ==
    mainPc = "phase2" /\ idx = 2
    => [k \in 1..Len(rows) |-> rows[k].platform]
         = CanonicalNames(EntryByPresence(
               raw_titles[1].title.streamingAvailability.country,
               raw_titles[1].region))


\* The platforms the module docstring lists for each region (lines 7-9).
PlatformsQueried(country) ==
    IF country = "US" THEN {"Netflix", "Prime Video", "Hulu", "Zee5"}
    ELSE {"Netflix", "Prime Video", "Hotstar", "Zee5"}

\* C22: in the final row set every US row has one of Netflix, Prime Video,
\* Hulu, Zee5 as its platform and every IN row one of Netflix, Prime Video,
\* Hotstar, Zee5.
C22_RegionPlatforms ==
    mainPc = "report"
    => \A k \in 1..Len(rows) : rows[k].platform \in PlatformsQueried(rows[k].country)

\* C23: no row has an empty titleId, at any point of the run and so in the
\* final row set; the empty identifier is never collected for enrichment
\* and never looked up.
C23_NonEmptyTitleId ==
    /\ \A k \in 1..Len(rows) : rows[k].imdb_id # ""
    /\ \A k \in 1..Len(candidates) : candidates[k].imdb_id # ""
    /\ "" \notin imdb_ids_for_enrichment
    /\ \A k \in 1..Len(lookups) : lookups[k] # ""

\* A record without imdbid (Hindi, on Hulu in the US) is followed by Jawan:
\* the run ends with the rows of Jawan only, after one lookup.
C23_Witness ==
    /\ mainPc = "report"
    /\ raw_titles = <<[region |-> "US", title |-> RawUntitled],
                      [region |-> "US", title |-> RawJawan]>>
    /\ rowsFrom = <<0, 2>>
    /\ lookups = <<"tt0001">>
    /\ \A k \in 1..Len(rows) : rows[k].imdb_id = "tt0001"


\* C24: a fetch that returns without a failure (its last call did not end
\* with RateLimitExhausted) has fetched pages 1, 2, ... in order, one
\* response each, and its result is the records of all of them in page
\* order, those of a last page of one record included.
C24_AllPagesConcatenated ==
    pgState = "returned" /\ lastCall = "none"
    => /\ PagesInOrder(requested)
       /\ Len(served) = Len(requested)
       /\ \A k \in 1..Len(served) : served[k].page = k
       /\ all_results = Flatten(served)

\* Two full pages, then a page of one record: the result ends with that
\* record.
C24_Witness ==
    /\ pgState = "returned"
    /\ lastCall = "none"
    /\ Len(served) = 3
    /\ Len(served[1].results) = pageLen
    /\ Len(served[2].results) = pageLen
    /\ Len(served[3].results) = 1
    /\ Len(all_results) = 2 * pageLen + 1
    /\ all_results[Len(all_results)] = served[3].results[1]


(***************************************************************************)
(* SpecOrganize: one run of organize_files, live or dry, on every source   *)
(* directory with up to MaxFiles regular files of TopPool and any of the   *)
(* files of InsidePool already in its subdirectories.                      *)
(***************************************************************************)
MaxFiles == 3

TopPool == {"a.jpg", "a_1.jpg", "b.TXT", "notes", "Other", "Images"}
Old(dir, name) == [dir |-> dir, name |-> name, data |-> "old"]
InsidePool ==
    {Old("Images", "a.jpg"), Old("Images", "a_1.jpg"), Old("Other", "notes"),
     Old("Other", "Images")}

OrgStart == OrganizeStart /\ UNCHANGED <<callVars, pagerVars, enrichVars, mainVars>>
OrgEntry == OrganizeEntry /\ UNCHANGED <<callVars, pagerVars, enrichVars, mainVars>>
OrgReturn == OrganizeReturn /\ UNCHANGED <<callVars, pagerVars, enrichVars, mainVars>>

InitOrganize ==
    /\ CallInit /\ PagerInit /\ pageLen = MaxPageLen /\ EnrichInit /\ MainInit
    /\ orgPc = "idle"
    /\ dry_run \in BOOLEAN
    /\ top_files \in {F \in SUBSET TopPool : Cardinality(F) <= MaxFiles}
    /\ inside \in SUBSET InsidePool
    /\ top_dirs = {e.dir : e \in inside}
    /\ top_files \cap top_dirs = {}
    /\ pending = {}
    /\ moved = <<>>
    /\ top0 = top_files
    /\ dirs0 = top_dirs
    /\ inside0 = inside
    /\ placed = <<>>
NextOrganize == OrgStart \/ OrgEntry \/ OrgReturn
SpecOrganize == InitOrganize /\ [][NextOrganize]_vars

\* The files the run has moved in that came from source file f.
CopiesOf(f) == {e \in inside : e.data = f}

\* No file is overwritten or lost, whether or not the run ends: a file
\* that was in a subdirectory is still there, a source file is either still
\* in the source directory or once in the subdirectory of its category,
\* under a name that was free, and a dry run leaves the file system as it
\* was.
NothingLost ==
    /\ inside0 \subseteq inside
    /\ \A f \in top0 :
          IF f \in top_files THEN CopiesOf(f) = {}
          ELSE /\ Cardinality(CopiesOf(f)) = 1
               /\ \A e \in CopiesOf(f) : e.dir = get_category(f)
    /\ \A k \in 1..Len(placed) : placed[k].fresh
    /\ dry_run => top_files = top0 /\ top_dirs = dirs0 /\ inside = inside0

\* C25: a run of organize_files loses and overwrites nothing, a dry run
\* changes nothing, and a live run goes through the whole listing: it ends
\* with every regular file of the source directory moved into the
\* subdirectory of its category.
C25_EveryFileMovedSafely ==
    /\ NothingLost
    /\ orgPc # "crashed"
    /\ orgPc = "done" /\ ~dry_run => top_files = {}

=============================================================================
